---------------------------- MODULE Spec2Model ----------------------------
(***************************************************************************)
(* Model of service/http_protocol.py: HTTPProtocol, the HTTP control       *)
(* connection of the mock AMQP server.  One connection is modelled: its    *)
(* request state machine (_data_received), the route handlers (_on_get,    *)
(* _on_post, _on_delete, _on_put), the completion callback of the deferred *)
(* waits (_on_get_done) and the response writers.  The h11 connection      *)
(* object the protocol owns is modelled by its state machine (the states   *)
(* of both roles, the keep-alive flag, the receive buffer), the transport  *)
(* by an open flag and the responses written on it.                        *)
(*                                                                         *)
(* Bytes are abstracted: a target is the sequence of its path segments     *)
(* ("/a/b" is <<"a","b">>), a body is a sequence of fragments, and the     *)
(* receive buffer is the sequence of the parser events the buffered bytes  *)
(* will parse to.                                                          *)
(***************************************************************************)
EXTENDS Integers, Sequences, FiniteSets, TLC

\* ------------------------------------------------------------- bounds
\* Number of data_received calls on the connection.
MaxCalls == 4
\* Number of requests the peer starts on the connection.
MaxRequests == 2

\* ------------------------------------------------------------- values
WAITING_HEADERS == "WAITING_HEADERS"
WAITING_BODY == "WAITING_BODY"

\* None for self._method; None for self._target is the empty sequence,
\* which is no target (every target starts with "/").
NoMethod == "None"
NoTarget == << >>

\* The request methods the peer sends; OPTIONS stands for every method the
\* state machine has no branch for.
Methods == {"GET", "POST", "PUT", "DELETE", "OPTIONS"}

\* The targets the peer sends: every route of the table, an integer and a
\* non-integer delivery tag, the binding route with one, two and three
\* trailing segments, and targets matching no prefix.
Targets ==
  { <<"authentification-done-with-success-on", "u">>,
    <<"messages-acknowledged", "42">>,
    <<"messages-acknowledged", "x">>,
    <<"messages-in-queue", "q">>,
    <<"messages-in-exchange", "e">>,
    <<"queue-bound-to-exchange", "q">>,
    <<"queue-bound-to-exchange", "q", "e">>,
    <<"queue-bound-to-exchange", "q", "e", "x">>,
    <<"add-message-on", "e">>,
    <<"nope">> }

\* The request bodies the peer sends, as their fragments: no body, a
\* complete JSON object with the fields headers and body, the same object
\* cut in two, a JSON object without those fields, and bytes that are no
\* JSON.
Bodies == { << >>, <<"whole">>, <<"part1", "part2">>, <<"nofields">>, <<"bad">> }

\* json.loads(data.decode('utf-8')) succeeds
ValidJson(data) ==
  data \in {<<"whole">>, <<"part1", "part2">>, <<"nofields">>}

\* full_message['headers'] and full_message['body'] exist
HasFields(data) == data \in {<<"whole">>, <<"part1", "part2">>}

\* int(delivery_tag.decode('utf-8')) succeeds
IsInt(name) == name \in {<<"42">>}

\* target.startswith(b'/' + prefix + b'/')
StartsWith(target, prefix) == Len(target) >= 2 /\ target[1] = prefix

\* target.split(b'/', maxsplit=n): the leading empty string, the first n-1
\* segments, and the rest of the target (kept as its segments) when the
\* target has n segments or more.  Its length is what the code unpacks.
SplitLen(target, n) == IF Len(target) >= n THEN n + 1 ELSE Len(target) + 1

\* target.split(b'/', maxsplit=n)[n] for a target of n segments or more
SplitRest(target, n) == SubSeq(target, n, Len(target))


\* ------------------------------------------------------------- h11
\* The events next_event returns that are no protocol events.
NEED_DATA == [type |-> "NEED_DATA"]
PAUSED == [type |-> "PAUSED"]

\* What the peer's bytes parse to.
RequestEv(m, t, ka) == [type |-> "Request", method |-> m, target |-> t, keep_alive |-> ka]
DataEv(d) == [type |-> "Data", data |-> d]
EndOfMessage == [type |-> "EndOfMessage"]
\* Bytes that violate the HTTP grammar where they stand.
Garbage == [type |-> "Garbage"]

\* h11.Connection(h11.SERVER): both roles idle, keep-alive on, nothing
\* buffered.
NewParser ==
  [their_state |-> "IDLE", our_state |-> "IDLE", keep_alive |-> TRUE, buf |-> << >>]

\* The state-triggered transitions of the h11 connection state: with
\* keep-alive off a role that is DONE must close, and so must a client that
\* is DONE when the server is in ERROR.  (This server never sends
\* EndOfMessage, so its own role never reaches DONE.)
FireStateTriggered(p) ==
  IF p.their_state = "DONE" /\ (~p.keep_alive \/ p.our_state = "ERROR")
    THEN [p EXCEPT !.their_state = "MUST_CLOSE"]
    ELSE p

\* Adjacent runs of body bytes in the buffer are one run: the body reader
\* returns all the body bytes that are buffered as one Data event.
RECURSIVE Coalesce(_)
Coalesce(buf) ==
  IF Len(buf) < 2 THEN buf
  ELSE IF buf[1].type = "Data" /\ buf[2].type = "Data"
    THEN Coalesce(<<DataEv(buf[1].data \o buf[2].data)>> \o Tail(Tail(buf)))
    ELSE <<buf[1]>> \o Coalesce(Tail(buf))

\* http_parser.receive_data(data): the bytes join the receive buffer.
ReceiveData(p, seg) == [p EXCEPT !.buf = Coalesce(p.buf \o seg)]

\* A protocol error of the peer: its role goes to ERROR, no event is
\* returned and the offending bytes stay buffered.
RemoteError(p) ==
  [event |-> NEED_DATA, raised |-> TRUE,
   parser |-> FireStateTriggered([p EXCEPT !.their_state = "ERROR"])]

\* NextEvent as it would be had the connection started the next cycle for
\* a peer that is DONE: buffered bytes of a further request are parsed.
NextEventPipelined(p) ==
  IF p.their_state = "ERROR" THEN [event |-> NEED_DATA, raised |-> TRUE, parser |-> p]
  ELSE IF p.buf = << >> THEN [event |-> NEED_DATA, raised |-> FALSE, parser |-> p]
  ELSE LET ev == Head(p.buf)
           q == [p EXCEPT !.buf = Tail(p.buf)]
       IN IF p.their_state \in {"IDLE", "DONE"} /\ ev.type = "Request"
            THEN [event |-> ev, raised |-> FALSE,
                  parser |-> [q EXCEPT !.their_state = "SEND_BODY",
                                        !.our_state = "SEND_RESPONSE",
                                        !.keep_alive = p.keep_alive /\ ev.keep_alive]]
          ELSE IF p.their_state = "SEND_BODY" /\ ev.type = "Data"
            THEN [event |-> ev, raised |-> FALSE, parser |-> q]
          ELSE IF p.their_state = "SEND_BODY" /\ ev.type = "EndOfMessage"
            THEN [event |-> ev, raised |-> FALSE,
                  parser |-> FireStateTriggered([q EXCEPT !.their_state = "DONE"])]
          ELSE RemoteError(p)

\* http_parser.next_event(): the next event of the buffered bytes, the
\* parser after it, and whether RemoteProtocolError is raised instead.
\*   - peer in ERROR: raises;
\*   - peer DONE with bytes buffered: PAUSED (until start_next_cycle, which
\*     this server never calls);
\*   - peer IDLE: a request head gives Request, the peer sends its body and
\*     the server may respond;
\*   - peer sending its body: Data, or EndOfMessage which ends the request;
\*   - peer DONE/MUST_CLOSE: nothing is expected, so bytes are an error;
\*   - nothing buffered: NEED_DATA.
NextEvent(p) ==
  IF p.their_state = "ERROR" THEN [event |-> NEED_DATA, raised |-> TRUE, parser |-> p]
  ELSE IF p.their_state = "DONE" /\ p.buf # << >>
    THEN [event |-> PAUSED, raised |-> FALSE, parser |-> p]
  ELSE IF p.buf = << >> THEN [event |-> NEED_DATA, raised |-> FALSE, parser |-> p]
  ELSE LET ev == Head(p.buf)
           q == [p EXCEPT !.buf = Tail(p.buf)]
       IN IF p.their_state = "IDLE" /\ ev.type = "Request"
            THEN [event |-> ev, raised |-> FALSE,
                  parser |-> [q EXCEPT !.their_state = "SEND_BODY",
                                        !.our_state = "SEND_RESPONSE",
                                        !.keep_alive = p.keep_alive /\ ev.keep_alive]]
          ELSE IF p.their_state = "SEND_BODY" /\ ev.type = "Data"
            THEN [event |-> ev, raised |-> FALSE, parser |-> q]
          ELSE IF p.their_state = "SEND_BODY" /\ ev.type = "EndOfMessage"
            THEN [event |-> ev, raised |-> FALSE,
                  parser |-> FireStateTriggered([q EXCEPT !.their_state = "DONE"])]
          ELSE RemoteError(p)

\* CanSendResponse for a parser that accepts a response in every state.
CanSendResponseAlways(p) == TRUE

\* http_parser.send(h11.Response(...)) is legal for a server that is IDLE
\* or in SEND_RESPONSE.
CanSendResponse(p) == p.our_state \in {"IDLE", "SEND_RESPONSE"}

\* The parser after http_parser.send(h11.Response(... Connection: close)):
\* the server sends its body and keep-alive is off.
SentResponse(p) ==
  FireStateTriggered([p EXCEPT !.our_state = "SEND_BODY", !.keep_alive = FALSE])

\* The parser after a send that raised LocalProtocolError: the server role
\* is in ERROR.
SendFailed(p) == FireStateTriggered([p EXCEPT !.our_state = "ERROR"])


\* ------------------------------------------------------------- collaborator
\* The delivery tag the collaborator gives the first message published.
FirstTag == 9

\* The absent marker (None) of the collaborator's list and publish results.
Absent == -1

\* The queue and the exchange the targets name.
QueueName == <<"q">>
ExchangeName == <<"e">>

\* global_state.get_messages_of_queue(name): the messages of the queue (the
\* list is kept as its length), or the absent marker.
GetMessagesOfQueue(b, name) ==
  IF name \in DOMAIN b.queues THEN b.queues[name] ELSE Absent

\* global_state.get_messages_of_exchange(name)
GetMessagesOfExchange(b, name) ==
  IF name \in DOMAIN b.exchanges THEN b.exchanges[name] ELSE Absent

\* global_state.delete_messages_of_queue(name): empties the queue, a no-op
\* on an unknown queue.
DeleteMessagesOfQueue(b, name) ==
  IF name \in DOMAIN b.queues
    THEN [b EXCEPT !.queues = [@ EXCEPT ![name] = 0]]
    ELSE b

\* global_state.publish_message(exchange, headers, body): the delivery tag
\* of the message, or the absent marker for an unknown exchange.
PublishTag(b, exchange) ==
  IF exchange \in DOMAIN b.exchanges THEN b.next_tag ELSE Absent

PublishMessage(b, exchange) ==
  IF exchange \in DOMAIN b.exchanges
    THEN [b EXCEPT !.next_tag = @ + 1]
    ELSE b

\* ------------------------------------------------------------- encodings
\* str(n) for a natural number: its decimal digits.
Digit(d) ==
  CASE d = 0 -> "0" [] d = 1 -> "1" [] d = 2 -> "2" [] d = 3 -> "3" [] d = 4 -> "4"
    [] d = 5 -> "5" [] d = 6 -> "6" [] d = 7 -> "7" [] d = 8 -> "8" [] d = 9 -> "9"

RECURSIVE Str(_)
Str(n) == IF n < 10 THEN Digit(n) ELSE Str(n \div 10) \o Digit(n % 10)

\* json.dumps(messages) for a list of n message records (each record is
\* opaque and written "{}").
RECURSIVE JsonItems(_)
JsonItems(n) ==
  IF n = 0 THEN "" ELSE IF n = 1 THEN "{}" ELSE "{}, " \o JsonItems(n - 1)

JsonDumps(n) == "[" \o JsonItems(n) \o "]"

\* ------------------------------------------------------------- connection
\* The operations below take and return the connection as one record c:
\*   state, method, target   self._state, self._method, self._target
\*   parser                  self.http_parser
\*   open, written           self.transport: not closed; the responses written
\*   waits                   the futures started by the deferred handlers
\*   broker, calls           self._global_state and the operations invoked on it
\*   handled                 the handler invocations
\*   req                     the number of Request events processed
\*   exc                     the exception being raised, "none" when none

Raise(c, e) == [c EXCEPT !.exc = e]

\* transport.write(data); transport.write(body_data): the response reaches
\* the peer only while the transport is not closed.
TransportWrite(c, resp) ==
  IF c.open THEN [c EXCEPT !.written = Append(@, resp)] ELSE c

\* _send_http_response_with_body(status_code, body)
SendHttpResponseWithBody(c, status_code, body) ==
  IF ~CanSendResponse(c.parser)
    THEN Raise([c EXCEPT !.parser = SendFailed(@)], "LocalProtocolError")
    ELSE TransportWrite([c EXCEPT !.parser = SentResponse(@)],
           [status |-> status_code, content_length |-> Str(Len(body)),
            connection |-> "close", body |-> body, req |-> c.req])

\* _send_http_response_no_content()
SendHttpResponseNoContent(c) ==
  IF ~CanSendResponse(c.parser)
    THEN Raise([c EXCEPT !.parser = SendFailed(@)], "LocalProtocolError")
    ELSE TransportWrite([c EXCEPT !.parser = SentResponse(@)],
           [status |-> 204, content_length |-> "0",
            connection |-> "close", body |-> "", req |-> c.req])

\* _send_http_response_forbidden()
SendHttpResponseForbidden(c) == SendHttpResponseWithBody(c, 403, "forbidden\n")

\* _send_http_response_timeout()
SendHttpResponseTimeout(c) == SendHttpResponseWithBody(c, 504, "timeout\n")

\* _send_http_response_not_found()
SendHttpResponseNotFound(c) == SendHttpResponseWithBody(c, 404, "not found\n")

\* SendHttpResponseOk with the length taken before the newline is added.
SendHttpResponseOkShort(c, body) ==
  IF ~CanSendResponse(c.parser)
    THEN Raise([c EXCEPT !.parser = SendFailed(@)], "LocalProtocolError")
    ELSE TransportWrite([c EXCEPT !.parser = SentResponse(@)],
           [status |-> 200, content_length |-> Str(Len(body)),
            connection |-> "close", body |-> body \o "\n", req |-> c.req])

\* _send_http_response_ok(body)
SendHttpResponseOk(c, body) == SendHttpResponseWithBody(c, 200, body \o "\n")

\* _send_http_internal_server_error()
SendHttpInternalServerError(c) ==
  SendHttpResponseWithBody(c, 500, "internal server error\n")

\* The collaborator operation op(args) is invoked.
Invoke(c, op, args) ==
  [c EXCEPT !.calls = Append(@, [op |-> op, args |-> args, req |-> c.req])]

\* asyncio.ensure_future(self._global_state.wait_...(args)) with
\* add_done_callback(self._on_get_done): a pending wait of the request.
StartWait(c, op, args) ==
  [Invoke(c, op, args) EXCEPT
     !.waits = Append(@, [op |-> op, args |-> args, req |-> c.req,
                          status |-> "pending", outcome |-> "none"])]


\* A handler is entered.
Enter(c, handler, tgt, data) ==
  [c EXCEPT !.handled = Append(@, [handler |-> handler, target |-> tgt,
                                   data |-> data, req |-> c.req])]

\* OnGet answering an acknowledgement wait when it starts it.
OnGetEager(c0, tgt) ==
  LET c == Enter(c0, "_on_get", tgt, << >>) IN
  IF StartsWith(tgt, "authentification-done-with-success-on")
    THEN StartWait(c, "wait_authentication_performed_on", <<SplitRest(tgt, 2)>>)
  ELSE IF StartsWith(tgt, "messages-acknowledged")
    THEN IF IsInt(SplitRest(tgt, 2))
           THEN SendHttpResponseNoContent(
                  StartWait(c, "wait_message_acknoledged", <<SplitRest(tgt, 2)>>))
           ELSE Raise(c, "ValueError")
  ELSE IF StartsWith(tgt, "messages-in-queue")
    THEN LET name == SplitRest(tgt, 2)
             messages == GetMessagesOfQueue(c.broker, name)
             d == Invoke(c, "get_messages_of_queue", <<name>>)
         IN IF messages = Absent
              THEN SendHttpResponseNotFound(d)
              ELSE SendHttpResponseOk(d, JsonDumps(messages))
  ELSE IF StartsWith(tgt, "messages-in-exchange")
    THEN LET name == SplitRest(tgt, 2)
             messages == GetMessagesOfExchange(c.broker, name)
             d == Invoke(c, "get_messages_of_exchange", <<name>>)
         IN IF messages = Absent
              THEN SendHttpResponseNotFound(d)
              ELSE SendHttpResponseOk(d, JsonDumps(messages))
  ELSE IF StartsWith(tgt, "queue-bound-to-exchange")
    THEN IF SplitLen(tgt, 3) # 4
           THEN Raise(c, "ValueError")
           ELSE StartWait(c, "wait_queue_bound", << <<tgt[2]>>, SplitRest(tgt, 3) >>)
  ELSE SendHttpResponseNotFound(c)

\* _on_get(target)
OnGet(c0, tgt) ==
  LET c == Enter(c0, "_on_get", tgt, << >>) IN
  IF StartsWith(tgt, "authentification-done-with-success-on")
    THEN StartWait(c, "wait_authentication_performed_on", <<SplitRest(tgt, 2)>>)
  ELSE IF StartsWith(tgt, "messages-acknowledged")
    THEN IF IsInt(SplitRest(tgt, 2))
           THEN StartWait(c, "wait_message_acknoledged", <<SplitRest(tgt, 2)>>)
           ELSE Raise(c, "ValueError")
  ELSE IF StartsWith(tgt, "messages-in-queue")
    THEN LET name == SplitRest(tgt, 2)
             messages == GetMessagesOfQueue(c.broker, name)
             d == Invoke(c, "get_messages_of_queue", <<name>>)
         IN IF messages = Absent
              THEN SendHttpResponseNotFound(d)
              ELSE SendHttpResponseOk(d, JsonDumps(messages))
  ELSE IF StartsWith(tgt, "messages-in-exchange")
    THEN LET name == SplitRest(tgt, 2)
             messages == GetMessagesOfExchange(c.broker, name)
             d == Invoke(c, "get_messages_of_exchange", <<name>>)
         IN IF messages = Absent
              THEN SendHttpResponseNotFound(d)
              ELSE SendHttpResponseOk(d, JsonDumps(messages))
  ELSE IF StartsWith(tgt, "queue-bound-to-exchange")
    THEN IF SplitLen(tgt, 3) # 4
           THEN Raise(c, "ValueError")
           ELSE StartWait(c, "wait_queue_bound", << <<tgt[2]>>, SplitRest(tgt, 3) >>)
  ELSE SendHttpResponseNotFound(c)

\* _on_post(target, data)
OnPost(c0, tgt, data) ==
  LET c == Enter(c0, "_on_post", tgt, data) IN
  IF StartsWith(tgt, "add-message-on")
    THEN IF ~ValidJson(data) THEN Raise(c, "JSONDecodeError")
         ELSE IF ~HasFields(data) THEN Raise(c, "KeyError")
         ELSE LET exchange == SplitRest(tgt, 2)
                  delivery_tag == PublishTag(c.broker, exchange)
                  d == [Invoke(c, "publish_message", <<exchange>>) EXCEPT
                          !.broker = PublishMessage(@, exchange)]
              IN IF delivery_tag = Absent
                   THEN SendHttpResponseNotFound(d)
                   ELSE SendHttpResponseOk(d, Str(delivery_tag))
    ELSE SendHttpResponseNotFound(c)

\* OnDelete with an existence check: an unknown queue is reported not found.
OnDeleteChecked(c0, tgt) ==
  LET c == Enter(c0, "_on_delete", tgt, << >>) IN
  IF StartsWith(tgt, "messages-in-queue")
    THEN LET name == SplitRest(tgt, 2)
             d == [Invoke(c, "delete_messages_of_queue", <<name>>) EXCEPT
                     !.broker = DeleteMessagesOfQueue(@, name)]
         IN IF GetMessagesOfQueue(c.broker, name) = Absent
              THEN SendHttpResponseNotFound(d)
              ELSE SendHttpResponseNoContent(d)
    ELSE SendHttpResponseNotFound(c)

\* _on_delete(target)
OnDelete(c0, tgt) ==
  LET c == Enter(c0, "_on_delete", tgt, << >>) IN
  IF StartsWith(tgt, "messages-in-queue")
    THEN LET name == SplitRest(tgt, 2)
             d == [Invoke(c, "delete_messages_of_queue", <<name>>) EXCEPT
                     !.broker = DeleteMessagesOfQueue(@, name)]
         IN SendHttpResponseNoContent(d)
    ELSE SendHttpResponseNotFound(c)

\* _on_put(target, data)
OnPut(c0, tgt, data) ==
  SendHttpResponseNotFound(Enter(c0, "_on_put", tgt, data))

\* OnGetDone without the test of the result: a wait that resolved false is
\* answered like one that resolved true.
OnGetDoneUntested(c, outcome) ==
  IF outcome = "error" THEN Raise(c, "Exception")
  ELSE IF outcome = "timeout" THEN SendHttpResponseTimeout(c)
  ELSE SendHttpResponseNoContent(c)

\* _on_get_done(future) for a future that ended with outcome "true",
\* "false", "timeout" (WaitTimeout) or "error" (any other exception).  The
\* try block catches WaitTimeout alone: every other exception, and one
\* raised while the timeout response is sent, leaves the callback.
OnGetDone(c, outcome) ==
  IF outcome = "error" THEN Raise(c, "Exception")
  ELSE IF outcome = "timeout" THEN SendHttpResponseTimeout(c)
  ELSE IF outcome = "false" THEN SendHttpResponseForbidden(c)
  ELSE SendHttpResponseNoContent(c)

\* ProcessEvent with an end-of-message branch that resets the phase alone.
ProcessEventKeepsRequest(c, event) ==
  IF c.state = WAITING_HEADERS /\ event.type = "Request"
    THEN LET d == [c EXCEPT !.method = event.method, !.target = event.target] IN
         IF event.method = "GET" THEN OnGet(d, event.target)
         ELSE IF event.method = "DELETE" THEN OnDelete(d, event.target)
         ELSE IF event.method \in {"POST", "PUT"}
           THEN [d EXCEPT !.state = WAITING_BODY]
         ELSE d
  ELSE IF c.state = WAITING_BODY /\ event.type = "Data"
    THEN IF c.method = "POST" THEN OnPost(c, c.target, event.data)
         ELSE IF c.method = "PUT" THEN OnPut(c, c.target, event.data)
         ELSE c
  ELSE IF event.type = "EndOfMessage"
    THEN [c EXCEPT !.state = WAITING_HEADERS]
  ELSE c

\* ProcessEvent recording the method and target of POST and PUT alone.
ProcessEventRecordsBodied(c, event) ==
  IF c.state = WAITING_HEADERS /\ event.type = "Request"
    THEN LET d == [c EXCEPT !.method = event.method, !.target = event.target] IN
         IF event.method = "GET" THEN OnGet(c, event.target)
         ELSE IF event.method = "DELETE" THEN OnDelete(c, event.target)
         ELSE IF event.method \in {"POST", "PUT"}
           THEN [d EXCEPT !.state = WAITING_BODY]
         ELSE c
  ELSE IF c.state = WAITING_BODY /\ event.type = "Data"
    THEN IF c.method = "POST" THEN OnPost(c, c.target, event.data)
         ELSE IF c.method = "PUT" THEN OnPut(c, c.target, event.data)
         ELSE c
  ELSE IF event.type = "EndOfMessage"
    THEN [c EXCEPT !.state = WAITING_HEADERS, !.method = NoMethod, !.target = NoTarget]
  ELSE c

\* ProcessEvent with a body branch that does not look at the phase.
ProcessEventBodyAnyPhase(c, event) ==
  IF c.state = WAITING_HEADERS /\ event.type = "Request"
    THEN LET d == [c EXCEPT !.method = event.method, !.target = event.target] IN
         IF event.method = "GET" THEN OnGet(d, event.target)
         ELSE IF event.method = "DELETE" THEN OnDelete(d, event.target)
         ELSE IF event.method \in {"POST", "PUT"}
           THEN [d EXCEPT !.state = WAITING_BODY]
         ELSE d
  ELSE IF event.type = "Data"
    THEN IF c.method = "POST" THEN OnPost(c, c.target, event.data)
         ELSE OnPut(c, c.target, event.data)
  ELSE IF event.type = "EndOfMessage"
    THEN [c EXCEPT !.state = WAITING_HEADERS, !.method = NoMethod, !.target = NoTarget]
  ELSE c

\* ProcessEvent awaiting the body of every method but GET and DELETE.
ProcessEventAwaitsUnknown(c, event) ==
  IF c.state = WAITING_HEADERS /\ event.type = "Request"
    THEN LET d == [c EXCEPT !.method = event.method, !.target = event.target] IN
         IF event.method = "GET" THEN OnGet(d, event.target)
         ELSE IF event.method = "DELETE" THEN OnDelete(d, event.target)
         ELSE [d EXCEPT !.state = WAITING_BODY]
  ELSE IF c.state = WAITING_BODY /\ event.type = "Data"
    THEN IF c.method = "POST" THEN OnPost(c, c.target, event.data)
         ELSE IF c.method = "PUT" THEN OnPut(c, c.target, event.data)
         ELSE c
  ELSE IF event.type = "EndOfMessage"
    THEN [c EXCEPT !.state = WAITING_HEADERS, !.method = NoMethod, !.target = NoTarget]
  ELSE c

\* One pass of the loop body of _data_received on the event just drawn.
ProcessEvent(c, event) ==
  IF c.state = WAITING_HEADERS /\ event.type = "Request"
    THEN LET d == [c EXCEPT !.method = event.method, !.target = event.target] IN
         IF event.method = "GET" THEN OnGet(d, event.target)
         ELSE IF event.method = "DELETE" THEN OnDelete(d, event.target)
         ELSE IF event.method \in {"POST", "PUT"}
           THEN [d EXCEPT !.state = WAITING_BODY]
         ELSE d
  ELSE IF c.state = WAITING_BODY /\ event.type = "Data"
    THEN IF c.method = "POST" THEN OnPost(c, c.target, event.data)
         ELSE IF c.method = "PUT" THEN OnPut(c, c.target, event.data)
         ELSE c
  ELSE IF event.type = "EndOfMessage"
    THEN [c EXCEPT !.state = WAITING_HEADERS, !.method = NoMethod, !.target = NoTarget]
  ELSE c

\* The except clause of data_received: the 500 response is attempted, then
\* the transport is closed; an exception of the attempt replaces the
\* handled one and leaves the clause before the close.
OnException(c) ==
  LET d == SendHttpInternalServerError([c EXCEPT !.exc = "none"]) IN
  IF d.exc # "none" THEN d ELSE [d EXCEPT !.open = FALSE, !.exc = c.exc]


\* ------------------------------------------------------------- state
VARIABLES
  state,          \* self._state
  method,         \* self._method
  target,         \* self._target
  http_parser,    \* self.http_parser
  transportOpen,  \* self.transport has not been closed
  written,        \* the responses written on self.transport
  waits,          \* the futures of the deferred handlers
  broker,         \* self._global_state
  pc,             \* "idle", or "drain" inside the loop of _data_received
  calls,          \* history: the collaborator operations invoked
  handled,        \* history: the handler invocations
  reqNo,          \* history: the number of Request events processed
  cur,            \* history: the request whose events are being processed
  completed,      \* history: the requests whose EndOfMessage was processed
  errors,         \* history: the exceptions that left data_received or a callback
  nCalls,         \* history: the number of data_received calls
  peer            \* the peer: the rest of the request it is sending, its requests

vars ==
  <<state, method, target, http_parser, transportOpen, written, waits, broker,
    pc, calls, handled, reqNo, cur, completed, errors, nCalls, peer>>

NoRequest ==
  [req |-> 0, method |-> NoMethod, target |-> NoTarget, chunks |-> 0, body |-> << >>]

\* The connection as the record the operations take.
Conn ==
  [state |-> state, method |-> method, target |-> target, parser |-> http_parser,
   open |-> transportOpen, written |-> written, waits |-> waits, broker |-> broker,
   calls |-> calls, handled |-> handled, req |-> reqNo, exc |-> "none"]

\* The next state is the connection c.
Becomes(c) ==
  /\ state' = c.state
  /\ method' = c.method
  /\ target' = c.target
  /\ http_parser' = c.parser
  /\ transportOpen' = c.open
  /\ written' = c.written
  /\ waits' = c.waits
  /\ broker' = c.broker
  /\ calls' = c.calls
  /\ handled' = c.handled
  /\ reqNo' = c.req

\* __init__ and connection_made, with a collaborator that knows the queue
\* and the exchange, or neither.
Init ==
  /\ state = WAITING_HEADERS
  /\ method = NoMethod
  /\ target = NoTarget
  /\ http_parser = NewParser
  /\ transportOpen = TRUE
  /\ written = << >>
  /\ waits = << >>
  /\ \E known \in {{}, {QueueName, ExchangeName}} :
       broker = [queues |-> [n \in known \cap {QueueName} |-> 1],
                 exchanges |-> [n \in known \cap {ExchangeName} |-> 1],
                 next_tag |-> FirstTag]
  /\ pc = "idle"
  /\ calls = << >>
  /\ handled = << >>
  /\ reqNo = 0
  /\ cur = NoRequest
  /\ completed = << >>
  /\ errors = << >>
  /\ nCalls = 0
  /\ peer = [rest |-> << >>, requests |-> 0]

\* ------------------------------------------------------------- the peer
\* The bytes of one request, as the events they parse to when each fragment
\* of the body arrives by itself.
RECURSIVE Chunks(_)
Chunks(body) ==
  IF body = << >> THEN << >> ELSE <<DataEv(<<Head(body)>>)>> \o Chunks(Tail(body))

Stream(m, t, ka, body) == <<RequestEv(m, t, ka)>> \o Chunks(body) \o <<EndOfMessage>>

\* The requests a peer sends first on the connection.
FirstRequests ==
  { Stream(m, t, ka, b) : m \in Methods, t \in Targets, ka \in BOOLEAN, b \in Bodies }

\* The requests a peer sends after its first one.
FollowUps ==
  { Stream("GET", <<"messages-in-queue", "q">>, TRUE, << >>),
    Stream("PUT", <<"nope">>, TRUE, <<"whole">>) }

\* ------------------------------------------------------------- actions
\* data_received(data) up to the loop of _data_received: the next bytes of
\* the peer's request (of a new request when the last one was sent whole)
\* are fed to the parser.
DataReceived ==
  /\ pc = "idle" /\ transportOpen /\ nCalls < MaxCalls
  /\ \E stream \in (IF peer.rest # << >> THEN {peer.rest}
                    ELSE IF peer.requests >= MaxRequests THEN {}
                    ELSE IF peer.requests = 0 THEN FirstRequests ELSE FollowUps) :
       \E k \in 1..Len(stream) :
         /\ http_parser' = ReceiveData(http_parser, SubSeq(stream, 1, k))
         /\ peer' = [rest |-> SubSeq(stream, k + 1, Len(stream)),
                     requests |-> IF peer.rest = << >> THEN peer.requests + 1
                                  ELSE peer.requests]
  /\ pc' = "drain"
  /\ nCalls' = nCalls + 1
  /\ UNCHANGED <<state, method, target, transportOpen, written, waits, broker,
                 calls, handled, reqNo, cur, completed, errors>>

\* data_received(data) with bytes that are no HTTP where they stand.
GarbageReceived ==
  /\ pc = "idle" /\ transportOpen /\ nCalls < MaxCalls
  /\ http_parser' = ReceiveData(http_parser, <<Garbage>>)
  /\ pc' = "drain"
  /\ nCalls' = nCalls + 1
  /\ UNCHANGED <<state, method, target, transportOpen, written, waits, broker,
                 calls, handled, reqNo, cur, completed, errors, peer>>

\* The request the events belong to, after one more event.
CurAfter(event) ==
  IF event.type = "Request"
    THEN [req |-> reqNo + 1, method |-> event.method, target |-> event.target,
          chunks |-> 0, body |-> << >>]
  ELSE IF event.type = "Data"
    THEN [cur EXCEPT !.chunks = @ + 1, !.body = @ \o event.data]
  ELSE cur

\* One iteration of the loop of _data_received: the next event is drawn and
\* processed; NEED_DATA ends the loop and the call.  An exception ends the
\* call through the except clause of data_received and reaches the event
\* loop, which logs it and, depending on the asyncio version, treats it as
\* fatal for the transport (which it then closes itself) or leaves the
\* transport as the except clause left it.
Drain ==
  /\ pc = "drain"
  /\ LET r == NextEvent(http_parser)
         c == [Conn EXCEPT !.parser = r.parser,
                           !.req = IF ~r.raised /\ r.event.type = "Request"
                                     THEN reqNo + 1 ELSE reqNo]
         d == IF r.raised THEN Raise(c, "RemoteProtocolError")
                          ELSE ProcessEvent(c, r.event)
     IN IF d.exc # "none"
          THEN LET e == OnException(d) IN
               /\ \E fatal \in BOOLEAN : Becomes([e EXCEPT !.open = @ /\ ~fatal])
               /\ pc' = "idle"
               /\ cur' = IF r.raised THEN cur ELSE CurAfter(r.event)
               /\ errors' = Append(errors, [where |-> "data_received", exc |-> d.exc,
                                            raised |-> e.exc, req |-> d.req,
                                            closed |-> ~e.open])
               /\ UNCHANGED completed
          ELSE /\ Becomes(d)
               /\ pc' = IF r.event = NEED_DATA THEN "idle" ELSE "drain"
               /\ cur' = CurAfter(r.event)
               /\ completed' = IF r.event.type = "EndOfMessage"
                                 THEN Append(completed, cur) ELSE completed
               /\ UNCHANGED errors
  /\ UNCHANGED <<nCalls, peer>>

\* The outcomes of a wait: it resolves true or false, fails with
\* WaitTimeout, or fails with another exception.
Outcomes == {"true", "false", "timeout", "error"}

\* A wait ends and the event loop, between two data_received calls, runs
\* its done callback _on_get_done.  An exception of the callback goes to
\* the event loop's exception handler.
WaitSettles ==
  /\ pc = "idle"
  /\ \E i \in DOMAIN waits, o \in Outcomes :
       /\ waits[i].status = "pending"
       /\ LET c == [Conn EXCEPT !.waits[i].status = "settled",
                                !.waits[i].outcome = o,
                                !.req = waits[i].req]
              d == OnGetDone(c, o)
          IN /\ Becomes([d EXCEPT !.req = reqNo])
             /\ errors' = IF d.exc # "none"
                            THEN Append(errors, [where |-> "callback", exc |-> d.exc,
                                                 raised |-> d.exc, req |-> d.req,
                                                 closed |-> ~d.open])
                            ELSE errors
  /\ UNCHANGED <<pc, cur, completed, nCalls, peer>>

\* The peer closes the connection: the transport is closed (the protocol
\* defines no connection_lost, so nothing else happens).
ConnectionLost ==
  /\ pc = "idle" /\ transportOpen
  /\ transportOpen' = FALSE
  /\ UNCHANGED <<state, method, target, http_parser, written, waits, broker, pc,
                 calls, handled, reqNo, cur, completed, errors, nCalls, peer>>

Next == DataReceived \/ GarbageReceived \/ Drain \/ WaitSettles \/ ConnectionLost

Spec == Init /\ [][Next]_vars


\* ------------------------------------------------------------- properties
\* The statuses of the responses written for request r, in order.
RECURSIVE StatusesOf(_, _)
StatusesOf(ws, r) ==
  IF ws = << >> THEN << >>
  ELSE (IF Head(ws).req = r THEN <<Head(ws).status>> ELSE << >>)
       \o StatusesOf(Tail(ws), r)

\* The entries of the history h that belong to request r.
RECURSIVE OfRequest(_, _)
OfRequest(h, r) ==
  IF h = << >> THEN << >>
  ELSE (IF Head(h).req = r THEN <<Head(h)>> ELSE << >>) \o OfRequest(Tail(h), r)

\* The status the wait/timeout bridge gives an outcome.
OutcomeStatus(o) ==
  CASE o = "true" -> 204 [] o = "false" -> 403 [] o = "timeout" -> 504

Bridged == {"true", "false", "timeout"}

\* An exception left data_received, or a callback, while request r was the
\* last one started.
Failed(r) == \E i \in DOMAIN errors : errors[i].req = r

\* A wait was started for request r.
Deferred(r) == \E i \in DOMAIN waits : waits[i].req = r

\* C1 as stated: for each deferred GET route, once the wait has resolved
\* true, resolved false or timed out, exactly one response has been written
\* for the request, with status 204, 403 or 504 respectively.
C1_SettledWaitAnswered ==
  \A i \in DOMAIN waits :
    waits[i].status = "settled" /\ waits[i].outcome \in Bridged
      => StatusesOf(written, waits[i].req) = <<OutcomeStatus(waits[i].outcome)>>

\* C1 amended: when a wait resolves true, resolves false or times out while
\* the transport is open, the settlement writes exactly one response, with
\* status 204, 403 or 504 respectively, and it is the only response of the
\* request; when the transport has been closed, the settlement writes
\* nothing.
C1_SettlementWritesBridgedStatus ==
  [][\A i \in DOMAIN waits :
       ( /\ waits[i].status = "pending"
         /\ i \in DOMAIN waits' /\ waits'[i].status = "settled"
         /\ waits'[i].outcome \in Bridged )
       => IF transportOpen
            THEN /\ StatusesOf(written, waits[i].req) = << >>
                 /\ StatusesOf(written', waits[i].req)
                      = <<OutcomeStatus(waits'[i].outcome)>>
                 /\ Len(written') = Len(written) + 1
            ELSE written' = written]_vars

\* C1 witness: the wait of an acknowledgement timed out on an open
\* transport and the request was answered 504.
C1_Witness ==
  \E i \in DOMAIN waits :
    /\ waits[i].status = "settled" /\ waits[i].outcome = "timeout"
    /\ waits[i].op = "wait_message_acknoledged"
    /\ StatusesOf(written, waits[i].req) = <<504>>

\* C2: at most one response is written per request, whatever its method and
\* however many body-chunk events it has; the response of a deferred request
\* counts for the request that started the wait.
C2_AtMostOneResponsePerRequest ==
  \A r \in 0..reqNo : Len(StatusesOf(written, r)) <= 1

\* C2 witness: a request whose handler ran for two body-chunk events has one
\* response.
C2_Witness ==
  \E r \in 1..reqNo :
    /\ Len(OfRequest(handled, r)) = 2
    /\ Len(StatusesOf(written, r)) = 1

\* C3 as stated (the immediate part): a GET, POST, PUT or DELETE request whose
\* events were all processed without an exception, and which started no
\* wait, has its response written once its end-of-message event is processed.
C3_CompletedRequestAnswered ==
  \A i \in DOMAIN completed :
    LET c == completed[i] IN
      ( /\ c.method \in {"GET", "POST", "PUT", "DELETE"}
        /\ ~Failed(c.req) /\ ~Deferred(c.req) )
      => Len(StatusesOf(written, c.req)) >= 1

\* C4 as stated: whenever the processing of an event in data_received
\* raises, the except clause of data_received closes the transport, whether
\* or not its 500 attempt succeeded.
C4_ExceptionClosesTransport ==
  \A i \in DOMAIN errors :
    errors[i].where = "data_received" => errors[i].closed

\* C5 as stated: when a wait fails with a condition other than the timeout,
\* a 500 response is attempted and the transport is closed.
C5_WaitFailureClosesTransport ==
  \A i \in DOMAIN waits :
    waits[i].status = "settled" /\ waits[i].outcome = "error"
      => ~transportOpen

\* C6: at most one wait is pending at any time, and while a wait is pending
\* no step of the connection enters a handler or starts a wait, whatever
\* bytes arrive.
C6_SinglePendingWait ==
  /\ [](Cardinality({i \in DOMAIN waits : waits[i].status = "pending"}) <= 1)
  /\ [][(\E i \in DOMAIN waits : waits[i].status = "pending")
          => handled' = handled /\ Len(waits') = Len(waits)]_vars

\* C6 witness: the bytes of a second request are buffered while the wait of
\* the first one is pending.
C6_Witness ==
  /\ \E i \in DOMAIN waits : waits[i].status = "pending"
  /\ peer.requests = 2
  /\ http_parser.buf # << >>
  /\ pc = "drain"

\* The requests whose Request event has been processed.
Seen == {completed[i] : i \in DOMAIN completed} \cup {c \in {cur} : c.req > 0}

\* The responses written for request r.
RepliesTo(r) == OfRequest(written, r)

\* C7 as stated: the response of a completed GET or POST request is the one
\* of the route table: the JSON list with 200, or 404 for the absent marker,
\* on the two listing routes; the decimal delivery tag with 200, or 404 for
\* the absent marker, on the publish route with a well-formed body; 404 with
\* the body "not found\n" for a target that matches no prefix of the method.
C7_Listing(c, known, count) ==
  LET name == SplitRest(c.target, 2) IN
  /\ Len(RepliesTo(c.req)) = 1
  /\ IF name \in known
       THEN /\ RepliesTo(c.req)[1].status = 200
            /\ RepliesTo(c.req)[1].body = JsonDumps(count[name]) \o "\n"
       ELSE RepliesTo(c.req)[1].status = 404

C7_Publish(c) ==
  /\ Len(RepliesTo(c.req)) = 1
  /\ IF SplitRest(c.target, 2) \in DOMAIN broker.exchanges
       THEN /\ RepliesTo(c.req)[1].status = 200
            /\ RepliesTo(c.req)[1].body = Str(broker.next_tag - 1) \o "\n"
       ELSE RepliesTo(c.req)[1].status = 404

C7_NotFound(c) ==
  /\ Len(RepliesTo(c.req)) = 1
  /\ RepliesTo(c.req)[1].status = 404
  /\ RepliesTo(c.req)[1].body = "not found\n"

C7_GetPrefixes ==
  {"authentification-done-with-success-on", "messages-acknowledged",
   "messages-in-queue", "messages-in-exchange", "queue-bound-to-exchange"}

C7_RouteTableStatus ==
  \A c \in {completed[i] : i \in DOMAIN completed} :
    /\ c.method = "GET" /\ StartsWith(c.target, "messages-in-queue")
         => C7_Listing(c, DOMAIN broker.queues, broker.queues)
    /\ c.method = "GET" /\ StartsWith(c.target, "messages-in-exchange")
         => C7_Listing(c, DOMAIN broker.exchanges, broker.exchanges)
    /\ c.method = "GET" /\ (\A x \in C7_GetPrefixes : ~StartsWith(c.target, x))
         => C7_NotFound(c)
    /\ ( /\ c.method = "POST" /\ StartsWith(c.target, "add-message-on")
         /\ ValidJson(c.body) /\ HasFields(c.body) )
         => C7_Publish(c)
    /\ c.method = "POST" /\ ~StartsWith(c.target, "add-message-on")
         => C7_NotFound(c)

\* C8 as stated: every PUT request, whatever its target and its body (no
\* body-chunk event, one, or several), is answered with exactly one 404
\* response and invokes no collaborator operation.
C8_PutAnswered404 ==
  \A c \in {completed[i] : i \in DOMAIN completed} :
    c.method = "PUT"
      => /\ StatusesOf(written, c.req) = <<404>>
         /\ OfRequest(calls, c.req) = << >>

\* C9: every DELETE request is dispatched once, at its Request event; on
\* /messages-in-queue/X it invokes delete-messages on X exactly once and is
\* answered 204 whether or not the queue exists; on every other target it
\* invokes nothing and is answered 404.
C9_DeleteRoute ==
  \A c \in Seen :
    c.method = "DELETE"
      => /\ Len(OfRequest(handled, c.req)) = 1
         /\ OfRequest(handled, c.req)[1].handler = "_on_delete"
         /\ IF StartsWith(c.target, "messages-in-queue")
              THEN /\ StatusesOf(written, c.req) = <<204>>
                   /\ OfRequest(calls, c.req)
                        = << [op |-> "delete_messages_of_queue",
                              args |-> <<SplitRest(c.target, 2)>>, req |-> c.req] >>
              ELSE /\ StatusesOf(written, c.req) = <<404>>
                   /\ OfRequest(calls, c.req) = << >>

\* C9 witness: the messages of a queue the collaborator does not know were
\* deleted and the request, sent with a body, was answered 204.
C9_Witness ==
  \E c \in {completed[i] : i \in DOMAIN completed} :
    /\ c.method = "DELETE" /\ StartsWith(c.target, "messages-in-queue")
    /\ SplitRest(c.target, 2) \notin DOMAIN broker.queues
    /\ c.chunks = 2
    /\ StatusesOf(written, c.req) = <<204>>

\* C10 as stated: a POST request is never dispatched to its handler more
\* than once, and once the end-of-message event of a POST request with a
\* body is processed the handler has run once, on the concatenation of all
\* the body-chunk events of the request.
C10_PostGetsWholeBody ==
  \A c \in Seen :
    c.method = "POST"
      => /\ Len(OfRequest(handled, c.req)) <= 1
         /\ (c \in {completed[i] : i \in DOMAIN completed} /\ c.chunks >= 1)
              => /\ Len(OfRequest(handled, c.req)) = 1
                 /\ OfRequest(handled, c.req)[1].data = c.body

\* The decimal numerals of 0..30, as a Content-Length header carries them.
C11_Decimals ==
  [n \in 0..30 |->
     <<"0", "1", "2", "3", "4", "5", "6", "7", "8", "9", "10", "11", "12", "13",
       "14", "15", "16", "17", "18", "19", "20", "21", "22", "23", "24", "25",
       "26", "27", "28", "29", "30">>[n + 1]]

\* C11: every response written has a status of 200, 204, 403, 404, 500 or
\* 504, carries Connection: close, and declares as Content-Length the
\* decimal numeral of the length of the body written after its headers; a
\* 204 has no body and a 200 body ends with the newline the writer adds.
C11_ContentLengthIsBodyLength ==
  \A i \in DOMAIN written :
    LET w == written[i] IN
    /\ w.status \in {200, 204, 403, 404, 500, 504}
    /\ w.connection = "close"
    /\ Len(w.body) \in DOMAIN C11_Decimals
    /\ w.content_length = C11_Decimals[Len(w.body)]
    /\ w.status = 204 => w.body = ""
    /\ w.status # 204 => Len(w.body) >= 2

\* C11 witness: a 200 response carrying the JSON list of a queue of one
\* message (five bytes with the newline) was written.
C11_Witness ==
  \E i \in DOMAIN written :
    /\ written[i].status = 200
    /\ written[i].body = "[{}]\n"
    /\ written[i].content_length = "5"

\* C12 as stated: after a request was answered 404 and its end-of-message
\* event was processed, a following well-formed request on the same
\* connection is dispatched and answered: once the peer has sent it whole
\* and data_received has returned, it is the second request processed and
\* it has its response.
C12_FollowUpAfter404Answered ==
  ( /\ Len(completed) >= 1
    /\ StatusesOf(written, 1) = <<404>>
    /\ peer.requests = 2 /\ peer.rest = << >>
    /\ nCalls = 2 /\ pc = "idle" )
  => /\ reqNo = 2
     /\ Len(StatusesOf(written, 2)) = 1

\* C13 as stated: a wait is not cancelled by the close of the transport,
\* and when a wait resolves or times out after the transport was closed, by
\* the peer or by the 500 path, its outcome is discarded: the settlement
\* writes no response and raises no failure.
C13_ClosedSettlementSilent ==
  [][/\ transportOpen /\ ~transportOpen' => waits' = waits
     /\ \A i \in DOMAIN waits :
          ( /\ ~transportOpen
            /\ waits[i].status = "pending"
            /\ waits'[i].status = "settled"
            /\ waits'[i].outcome \in Bridged )
          => written' = written /\ errors' = errors]_vars

\* C14: the processing of an end-of-message event, in either phase and
\* whether or not a handler ran for the request, leaves the phase
\* WAITING_HEADERS with method and target cleared; and no other step moves
\* the phase from WAITING_BODY to WAITING_HEADERS.
C14_EndOfMessageResets ==
  [][/\ completed' # completed
          => state' = WAITING_HEADERS /\ method' = NoMethod /\ target' = NoTarget
     /\ state = WAITING_BODY /\ state' = WAITING_HEADERS
          => completed' # completed]_vars

\* C14 witness: the end-of-message event of a POST without body, for which
\* no handler ran, was processed and the phase, method and target are reset.
C14_Witness ==
  \E i \in DOMAIN completed :
    /\ completed[i].method = "POST" /\ completed[i].chunks = 0
    /\ OfRequest(handled, completed[i].req) = << >>
    /\ state = WAITING_HEADERS /\ method = NoMethod /\ target = NoTarget

\* C15 as stated: between two processed events the method and target are
\* set exactly when the phase is WAITING_BODY; in WAITING_HEADERS they are
\* unset.
C15_RequestSetIffAwaitingBody ==
  /\ (method # NoMethod /\ target # NoTarget) <=> state = WAITING_BODY
  /\ state = WAITING_HEADERS => method = NoMethod /\ target = NoTarget

\* The request cur has had its header-complete event processed and not yet
\* its end-of-message event.
C15_InFlight ==
  cur.req > 0 /\ ~\E i \in DOMAIN completed : completed[i].req = cur.req

\* C15 amended: the method and target are set together, to those of the
\* request, from the processing of its header-complete event to the
\* processing of its end-of-message event, whatever its method, and are
\* unset outside that span; the phase is WAITING_BODY only within the span,
\* for a POST or a PUT, and is WAITING_BODY throughout the span of a POST or
\* a PUT.
C15_RequestSetWhileInFlight ==
  /\ method = NoMethod <=> target = NoTarget
  /\ method # NoMethod <=> C15_InFlight
  /\ method # NoMethod => method = cur.method /\ target = cur.target
  /\ state = WAITING_BODY <=> method \in {"POST", "PUT"}

\* C15 witness: data_received returned after the header-complete event of a
\* GET, before its end-of-message event: the phase is WAITING_HEADERS and
\* the method and target are set.
C15_Witness ==
  /\ pc = "idle" /\ state = WAITING_HEADERS
  /\ method = "GET" /\ target # NoTarget
  /\ C15_InFlight

\* C16 as stated: every data_received call terminates: the drain loop stops
\* as soon as the parser reports that no further event can be derived.
\* Inside the loop, then, the iteration about to run either ends the call or
\* changes the state of the connection; an iteration that does neither is
\* repeated forever.
C16_DrainIterationAdvances ==
  pc = "drain" => ENABLED <<Drain>>_vars

\* C17: a GET or DELETE request is dispatched once, when its
\* header-complete event is processed, and the phase stays WAITING_HEADERS
\* for all of it; the processing of one of its body-chunk events invokes
\* no handler and no collaborator operation, starts no wait, writes no
\* response and leaves the phase as it is.
C17_GetDeleteBodyIgnored ==
  /\ [](cur.method \in {"GET", "DELETE"} /\ C15_InFlight
          => /\ state = WAITING_HEADERS
             /\ Len(OfRequest(handled, cur.req)) = 1
             /\ OfRequest(handled, cur.req)[1].data = << >>)
  /\ [][cur.method \in {"GET", "DELETE"} /\ cur'.chunks = cur.chunks + 1
          => /\ handled' = handled /\ calls' = calls /\ waits' = waits
             /\ written' = written /\ errors' = errors
             /\ state = WAITING_HEADERS /\ state' = WAITING_HEADERS]_vars

\* C17 witness: a DELETE whose body came as two chunk events was processed
\* to its end-of-message event: its handler ran once and it has the one
\* response of its header-complete event.
C17_Witness ==
  \E i \in DOMAIN completed :
    /\ completed[i].method = "DELETE" /\ completed[i].chunks = 2
    /\ Len(OfRequest(handled, completed[i].req)) = 1
    /\ StatusesOf(written, completed[i].req) = <<204>>

\* C18: only the deferred handlers suspend.  A step that enters a handler
\* without starting a wait and without raising writes the response of the
\* request in that same step, before the next event is drawn.  A step that
\* starts a wait writes nothing and leaves the loop running; while the
\* wait is pending the request has no response of a handler, and responses
\* are written only by the settlement of the wait or by the except clause.
C18_OnlyDeferredHandlersSuspend ==
  /\ [](\A i \in DOMAIN waits :
          waits[i].status = "pending"
            => /\ StatusesOf(written, waits[i].req) \in {<< >>, <<500>>}
               /\ StatusesOf(written, waits[i].req) = <<500>> => Failed(waits[i].req))
  /\ [][/\ ( /\ handled' # handled /\ waits' = waits /\ errors' = errors )
             => /\ Len(written') = Len(written) + 1
                /\ written'[Len(written')].req = reqNo'
                /\ written'[Len(written')].req = handled'[Len(handled')].req
        /\ Len(waits') > Len(waits)
             => written' = written /\ pc' = "drain" /\ errors' = errors
        /\ \A i \in DOMAIN waits :
             waits[i].status = "pending" /\ written' # written
               => waits'[i].status = "settled" \/ errors' # errors]_vars

\* C18 witness: the end-of-message event of a deferred GET was processed
\* and data_received returned while its wait is pending and nothing is
\* written.
C18_Witness ==
  \E i \in DOMAIN waits, j \in DOMAIN completed :
    /\ waits[i].status = "pending"
    /\ completed[j].req = waits[i].req /\ completed[j].method = "GET"
    /\ pc = "idle" /\ written = << >>

\* C19 as stated: the binding route starts a wait only for a target with
\* exactly two path segments after the prefix, the queue and the exchange:
\* every wait on a binding was started by a request whose target is the
\* prefix followed by two segments, which are the queue and the exchange
\* waited on.
C19_BindingNeedsTwoSegments ==
  \A i \in DOMAIN waits :
    waits[i].op = "wait_queue_bound"
      => \E j \in DOMAIN handled :
           /\ handled[j].req = waits[i].req
           /\ Len(handled[j].target) = 3
           /\ waits[i].args = << <<handled[j].target[2]>>, <<handled[j].target[3]>> >>

\* C20: a request whose method is none of GET, POST, PUT and DELETE invokes
\* no handler and no collaborator operation and starts no wait; the
\* processing of its events writes no response and leaves the phase
\* WAITING_HEADERS, and the processing of its end-of-message event clears
\* the method and target.
C20_UnknownMethodIgnored ==
  /\ [](\A c \in Seen :
          c.method \notin {"GET", "POST", "PUT", "DELETE"}
            => /\ OfRequest(handled, c.req) = << >>
               /\ OfRequest(calls, c.req) = << >>
               /\ ~Deferred(c.req)
               /\ \A i \in DOMAIN written :
                    written[i].req = c.req => written[i].status = 500 /\ Failed(c.req))
  /\ [][( /\ pc = "drain" /\ errors' = errors
          /\ cur'.req > 0 /\ cur'.method \notin {"GET", "POST", "PUT", "DELETE"} )
          => /\ written' = written
             /\ state' = WAITING_HEADERS
             /\ completed' # completed => method' = NoMethod /\ target' = NoTarget]_vars

\* C20 witness: an OPTIONS request with a body chunk was processed to its
\* end-of-message event and data_received returned: nothing is written, no
\* handler ran, and the method and target are cleared.
C20_Witness ==
  \E i \in DOMAIN completed :
    /\ completed[i].method = "OPTIONS" /\ completed[i].chunks >= 1
    /\ pc = "idle" /\ written = << >> /\ handled = << >> /\ calls = << >>
    /\ state = WAITING_HEADERS /\ method = NoMethod /\ target = NoTarget

=============================================================================
